---- MODULE Spec2Model ----
(***************************************************************************)
(* Order placement, stock reservation, cancellation restock and simulated  *)
(* payment of the px39 backend: createOrder / updateOrderStatus            *)
(* (order.controller.js) and fakePayment (payments.controller.js), run as  *)
(* concurrent HTTP requests against one document database.                 *)
(*                                                                         *)
(* One step of a request is the handler's code up to and including its     *)
(* next database operation; a database operation on one document is        *)
(* atomic (MongoDB updateOne / findOne / create / save).                   *)
(*                                                                         *)
(* Money: a JavaScript Number of dollars is modelled as an integer number  *)
(* of mills (1/1000 dollar), so that rounding to cents is a real           *)
(* conversion.                                                             *)
(***************************************************************************)
EXTENDS Integers, Sequences, FiniteSets, TLC

(* ------------------------------ bounds -------------------------------- *)

\* requests started in one behaviour
MaxRequests == 3
\* quantity of one item
MaxQty == 2
\* initial stock of the best-stocked variation
MaxStock == 2

(* ----------------------------- constants ------------------------------ *)

Slots == {"s1", "s2"}

Users == {"u1", "u2", "adm"}

\* User.role
Role(u) == IF u = "adm" THEN "admin" ELSE "user"

ProductIds == {"p1", "p2"}

Sizes == {"M", "L"}

\* a missing / falsy product reference, idempotency key, size or colour
NoProduct == ""
NoKey == ""

\* updateOrderStatus: validStatuses
validStatuses == {"pending", "shipped", "delivered", "cancelled"}

(* ------------------------ strings and numbers ------------------------- *)

\* String.prototype.trim on the colours and sizes of the model
Trim(str) ==
  CASE str = "RED " -> "RED"
    [] OTHER -> str

\* case folding done by the "i" flag of the colour RegExp
Lower(str) ==
  CASE str = "RED" -> "red"
    [] str = "RED " -> "red "
    [] str = "Red" -> "red"
    [] str = "Blue" -> "blue"
    [] str = "Black" -> "black"
    [] OTHER -> str

\* escapeRegExp of order.controller.js: string.replace(/[.*+?^${}()|[\\]\\]/g,
\* "\\$&"). The character class ends at the first "]", so the pattern is a
\* special character followed by a backslash and a "]"; no colour of the
\* model contains that, and the string is returned as it is.
escapeRegExp(string) == string

\* escapeRegExp of payments.controller.js: /[.*+?^${}()|[\]\\]/g puts a
\* backslash before every special character
paymentsEscapeRegExp(string) ==
  CASE string = ".*" -> "\\.\\*"
    [] OTHER -> string

\* new RegExp(`^${source}$`, "i").test(text) on the sources of the model:
\* ".*" matches every text, an escaped ".*" matches the text ".*" only, and
\* a source without special characters matches itself up to case
RegExpTest(source, text) ==
  CASE source = ".*" -> TRUE
    [] source = "\\.\\*" -> text = ".*"
    [] OTHER -> Lower(source) = Lower(text)

\* order.controller.js: new RegExp(`^${escapeRegExp(color)}$`, "i")
colorRegexTest(color, variationColor) ==
  RegExpTest(escapeRegExp(color), variationColor)

\* payments.controller.js: new RegExp(`^${escapeRegExp(color)}$`, "i")
paymentsColorRegexTest(color, variationColor) ==
  RegExpTest(paymentsEscapeRegExp(color), variationColor)

\* Math.round(dollars * 100): mills -> cents, halves rounded up
MathRoundCents(mills) == (mills + 5) \div 10

\* Joi.number().precision(2) in convert mode: rounds to two decimals
JoiPrecision2(mills) == MathRoundCents(mills) * 10

\* Number((cents / 100).toFixed(2)): cents -> dollars, in mills
CentsToPrice(cents) == cents * 10

\* typeof x === "number": an optional Number is <<>> (null) or <<n>>
IsNumber(x) == Len(x) = 1

(* ------------------------------- state -------------------------------- *)

VARIABLES
  products,   \* Product collection: id -> document
  orders,     \* Order collection: orders[i] is the document with _id i
  req,        \* slot -> the request it is handling, with the handler's locals
  started,    \* number of requests started so far
  users,      \* User collection: id -> document
  messages,   \* Message collection (each with its conversation)
  issued,     \* the cookie pairs magicLogin has sent to clients
  blockedFrom \* history: account -> the status it had when the first block
              \* of the current run of blocks was saved, Unset outside a run

vars == <<products, orders, req, started, users, messages, issued, blockedFrom>>

\* the state the order and payment handlers do not touch
accountVars == <<users, messages, issued, blockedFrom>>

Idle == [op |-> "none", pc |-> "idle"]

\* the handler of slot s has not returned yet
InProgress(s) == req[s].pc \notin {"idle", "done"}

\* no other slot is running a handler
OthersQuiet(s) == \A t \in Slots \ {s} : ~InProgress(t)

\* slot s takes the request r; "alone" records that no other handler has
\* run since a request started, and a request that starts ends it
Disturb(s, r) ==
  [t \in Slots |->
     IF t = s THEN r
     ELSE IF "alone" \in DOMAIN req[t] THEN [req[t] EXCEPT !.alone = FALSE]
     ELSE req[t]]

\* res.status(code).json({message, order})
Response(code, message, order) ==
  [status |-> code, message |-> message, order |-> order]


(* --------------------------- database helpers ------------------------- *)

\* the positional operator "$": the first array element the $elemMatch selects
FirstIndex(S) == CHOOSE i \in S : \A j \in S : i <= j

\* the decrement's query without its stock test
StockedVariationsUntested(prodId, color, size, quantity) ==
  IF prodId \notin DOMAIN products \/ size \notin Sizes THEN {}
  ELSE {i \in 1..Len(products[prodId].variations) :
          colorRegexTest(color, products[prodId].variations[i].color)}

\* Product.updateOne({_id, variations: {$elemMatch: {color: colorRegex,
\*   [`stockBySize.${size}`]: {$gte: quantity}}}}, ...): the elements selected
StockedVariations(prodId, color, size, quantity) ==
  IF prodId \notin DOMAIN products \/ size \notin Sizes THEN {}
  ELSE {i \in 1..Len(products[prodId].variations) :
          /\ colorRegexTest(color, products[prodId].variations[i].color)
          /\ products[prodId].variations[i].stockBySize[size] >= quantity}

\* Product.updateOne({_id, variations: {$elemMatch: {color: colorRegex}}}, ...)
ColourVariations(prodId, color) ==
  IF prodId \notin DOMAIN products THEN {}
  ELSE {i \in 1..Len(products[prodId].variations) :
          colorRegexTest(color, products[prodId].variations[i].color)}

\* {$inc: {[`variations.$.stockBySize.${size}`]: delta}} on element i
IncStock(prodId, i, size, delta) ==
  [products EXCEPT ![prodId].variations[i].stockBySize[size] = @ + delta]

\* the rollback and the restock of order.controller.js: add qty to the
\* first variation the colour selects
RestockUpdate(prodId, color, size, qty) ==
  IF ColourVariations(prodId, color) = {} \/ size \notin Sizes THEN products
  ELSE IncStock(prodId, FirstIndex(ColourVariations(prodId, color)), size, qty)

\* restockOrderItems of payments.controller.js: the same update with that
\* file's colour RegExp
paymentsRestockUpdate(prodId, color, size, qty) ==
  LET selected == IF prodId \notin DOMAIN products THEN {}
                  ELSE {i \in 1..Len(products[prodId].variations) :
                          paymentsColorRegexTest(color, products[prodId].variations[i].color)}
  IN  IF selected = {} \/ size \notin Sizes THEN products
      ELSE IncStock(prodId, FirstIndex(selected), size, qty)

\* the idempotency lookup by key alone
OrdersWithKeyAnyUser(key, userId) ==
  {i \in 1..Len(orders) : orders[i].idempotencyKey = key}

\* Order.findOne({idempotencyKey: key, user: userId}): the documents that match
OrdersWithKey(key, userId) ==
  {i \in 1..Len(orders) : orders[i].idempotencyKey = key /\ orders[i].user = userId}

(* ------------------------- price recalculation ------------------------ *)

\* variationSchema declares no price fields: variation.salePrice and
\* variation.price are never numbers
VariationPrice(v) == <<>>

\* the unit price taken from product.price before product.salePrice
UnitPricePriceFirst(it) ==
  IF it.product # NoProduct
  THEN IF it.product \notin DOMAIN products THEN <<>>
       ELSE <<products[it.product].price>>
  ELSE <<it.price>>

\* the unit price of one item, in mills; <<>> when recalc throws
UnitPrice(it) ==
  IF it.product # NoProduct
  THEN IF it.product \notin DOMAIN products THEN <<>>
       ELSE LET p == products[it.product]
                matching == {i \in 1..Len(p.variations) :
                               it.color # "" /\ colorRegexTest(it.color, p.variations[i].color)}
                fromVariation ==
                  IF matching = {} THEN <<>>
                  ELSE VariationPrice(p.variations[FirstIndex(matching)])
            IN  IF IsNumber(fromVariation) THEN fromVariation
                ELSE IF IsNumber(p.salePrice) THEN p.salePrice
                ELSE <<p.price>>
  ELSE <<it.price>>

RECURSIVE recalcFrom(_, _)
recalcFrom(items, k) ==
  IF k > Len(items) THEN <<0>>
  ELSE LET unit == UnitPrice(items[k])
           rest == recalcFrom(items, k + 1)
       IN  IF unit = <<>> \/ rest = <<>> THEN <<>>
           ELSE <<MathRoundCents(unit[1]) * items[k].quantity + rest[1]>>

\* recalcTotalPriceCents(items): <<cents>>, or <<>> when it throws
recalcTotalPriceCents(items) == recalcFrom(items, 1)

(* ------------------------------ inputs -------------------------------- *)

\* items a client may put in a payload (before Joi's conversion): product p1
\* in a padded upper-case red, p1 with the colour ".*", product p2 in black,
\* a colour p1 does not have, an item without a product reference (a gift
\* card), and a product that does not exist
ItemRed(q) == [product |-> "p1", color |-> "RED ", size |-> "M", quantity |-> q, price |-> 1500]
ItemAny(q) == [product |-> "p1", color |-> ".*", size |-> "M", quantity |-> q, price |-> 1500]
ItemBlack == [product |-> "p2", color |-> "black", size |-> "L", quantity |-> 1, price |-> 996]
ItemGreen == [product |-> "p1", color |-> "green", size |-> "M", quantity |-> 1, price |-> 1500]
ItemGift == [product |-> NoProduct, color |-> "", size |-> "", quantity |-> 1, price |-> 254]
ItemGone == [product |-> "p9", color |-> "black", size |-> "L", quantity |-> 1, price |-> 996]

\* the carts of the model
Carts ==
  {<<ItemRed(q)>> : q \in 1..MaxQty}
  \cup {<<ItemBlack, ItemRed(MaxQty)>>, <<ItemRed(1), ItemGreen>>,
        <<ItemAny(MaxQty)>>, <<ItemAny(MaxQty), ItemGreen>>,
        <<ItemGift, ItemRed(1)>>, <<ItemGone>>}

\* createOrderJoi.validate: the converted value of the items
JoiItems(items) ==
  [k \in 1..Len(items) |-> [items[k] EXCEPT !.price = JoiPrecision2(@)]]

\* totals a client may submit for a cart, in mills: the right one with
\* sub-cent noise, and one a cent too high
TotalChoices(items) ==
  LET right == recalcTotalPriceCents(JoiItems(items))
      base == IF right = <<>> THEN 0 ELSE CentsToPrice(right[1])
  IN  {base + 4, base + 10}

\* the catalogue: p1 is on sale and comes in red and blue; p2 comes in black
\* and has no sale price stored
InitProducts ==
  [p \in ProductIds |->
     IF p = "p1"
     THEN [price |-> 2004, salePrice |-> <<1500>>,
           variations |->
             << [color |-> "Red",
                 stockBySize |-> [z \in Sizes |-> IF z = "M" THEN MaxStock - 1 ELSE 0]],
                [color |-> "Blue",
                 stockBySize |-> [z \in Sizes |-> IF z = "M" THEN MaxStock ELSE 0]] >>]
     ELSE [price |-> 996, salePrice |-> <<>>,
           variations |->
             << [color |-> "Black",
                 stockBySize |-> [z \in Sizes |-> IF z = "L" THEN 1 ELSE 0]] >>]]

\* the accounts: customers u1 and u2, the admin, and a moderator
Accounts == Users \cup {"mod"}

\* userSchema.role; no handler writes it
AccountRole(u) == IF u = "mod" THEN "moderator" ELSE Role(u)

\* an unset String path of a document
Unset == ""

\* the User collection: every account active, never blocked, without a
\* magic link or a session
InitUsers ==
  [u \in Accounts |->
     [role |-> AccountRole(u), status |-> "active", previousStatus |-> Unset,
      magicLinkToken |-> 0, magicLinkExpiry |-> "unset", sessions |-> 0]]

Init ==
  /\ products = InitProducts
  /\ orders = <<>>
  /\ req = [s \in Slots |-> Idle]
  /\ started = 0
  /\ users = InitUsers
  /\ messages = <<>>
  /\ issued = <<>>
  /\ blockedFrom = [u \in Accounts |-> Unset]

(* ---------------------------- POST /orders ---------------------------- *)

\* the handler's locals when it enters the item loop
CreateOrderLocals(s, userId, items, totalPrice, key, calcCents) ==
  [op |-> "createOrder", pc |-> "items", user |-> userId, items |-> items,
   totalPrice |-> totalPrice, key |-> key, calcCents |-> calcCents, idx |-> 1,
   decremented |-> <<>>, processedItems |-> <<>>,
   alone |-> OthersQuiet(s), before |-> products, ordersBefore |-> orders]

\* a createOrder request that has returned
CreateOrderDone(userId, key, resp) ==
  [op |-> "createOrder", pc |-> "done", user |-> userId, key |-> key, resp |-> resp]

\* createOrder from its entry to the item loop. Authentication has passed
\* (auth middleware); "invalid" is a payload createOrderJoi or the phone
\* check rejects, "blankShipping" one that Joi accepts and whose required
\* shipping fields are blank. The products read by recalcTotalPriceCents
\* are not written by any request, so the reads are taken with the
\* idempotency lookup in one step.
CreateOrderStart(s, userId, payload, rawItems, rawTotal, key) ==
  /\ req[s].pc = "idle"
  /\ started < MaxRequests
  /\ started' = started + 1
  /\ LET items == JoiItems(rawItems)
         totalPrice == JoiPrecision2(rawTotal)
         existing == OrdersWithKey(key, userId)
         calc == recalcTotalPriceCents(items)
         submittedCents == MathRoundCents(totalPrice)
     IN  IF payload = "invalid"
         THEN req' = Disturb(s, CreateOrderDone(userId, key, Response(400, "Invalid payload", 0)))
         ELSE IF key # NoKey /\ existing # {}
         THEN \E o \in existing :
                req' = Disturb(s, CreateOrderDone(userId, key, Response(200, "", o)))
         ELSE IF calc = <<>>
         THEN req' = Disturb(s, CreateOrderDone(userId, key, Response(400, "Product not found", 0)))
         ELSE IF submittedCents # calc[1]
         THEN req' = Disturb(s, CreateOrderDone(userId, key, Response(400, "totalPrice mismatch", 0)))
         ELSE IF payload = "blankShipping"
         THEN req' = Disturb(s, CreateOrderDone(userId, key, Response(400, "Missing shipping fields", 0)))
         ELSE req' = Disturb(s, CreateOrderLocals(s, userId, items, totalPrice, key, calc[1]))
  /\ UNCHANGED <<products, orders>>

\* one iteration of the item loop: the conditional decrement of the item's
\* stock; on the first item that cannot be reserved the loop ends, and
\* with nothing to roll back the handler returns
CreateOrderItem(s) ==
  /\ req[s].op = "createOrder" /\ req[s].pc = "items"
  /\ req[s].idx <= Len(req[s].items)
  /\ LET it == req[s].items[req[s].idx]
         color == Trim(it.color)
         size == Trim(it.size)
         processed == [product |-> it.product, color |-> color, size |-> size,
                       quantity |-> it.quantity, price |-> it.price]
         matched == StockedVariations(it.product, color, size, it.quantity)
     IN  IF it.product = NoProduct
         THEN /\ req' = [req EXCEPT ![s].idx = @ + 1,
                                    ![s].processedItems = Append(@, processed)]
              /\ UNCHANGED products
         ELSE IF matched = {}
         THEN /\ req' = [req EXCEPT ![s] =
                   IF req[s].decremented = <<>>
                   THEN [op |-> "createOrder", pc |-> "done", user |-> req[s].user,
                         key |-> req[s].key, resp |-> Response(400, "Not enough stock", 0),
                         alone |-> req[s].alone, before |-> req[s].before,
                         ordersBefore |-> req[s].ordersBefore, decremented |-> <<>>]
                   ELSE [req[s] EXCEPT !.pc = "rollback", !.idx = 1]]
              /\ UNCHANGED products
         ELSE /\ products' = IncStock(it.product, FirstIndex(matched), size, 0 - it.quantity)
              /\ req' = [req EXCEPT
                   ![s].idx = @ + 1,
                   ![s].processedItems = Append(@, processed),
                   ![s].decremented = Append(@, [prodId |-> it.product, color |-> color,
                                                 size |-> size, qty |-> it.quantity])]
  /\ UNCHANGED <<orders, started>>

\* the rollback loop: one compensating increment; after the last one the
\* handler returns 400
CreateOrderRollback(s) ==
  /\ req[s].op = "createOrder" /\ req[s].pc = "rollback"
  /\ LET d == req[s].decremented[req[s].idx]
     IN  /\ products' = RestockUpdate(d.prodId, d.color, d.size, d.qty)
         /\ req' = [req EXCEPT ![s] =
              IF req[s].idx < Len(req[s].decremented)
              THEN [req[s] EXCEPT !.idx = @ + 1]
              ELSE [op |-> "createOrder", pc |-> "done", user |-> req[s].user,
                    key |-> req[s].key, resp |-> Response(400, "Not enough stock", 0),
                    alone |-> req[s].alone, before |-> req[s].before,
                    ordersBefore |-> req[s].ordersBefore,
                    decremented |-> req[s].decremented]]
  /\ UNCHANGED <<orders, started>>

\* the order document built after the loop
OrderDoc(r) ==
  [user |-> r.user, items |-> r.processedItems,
   totalPrice |-> CentsToPrice(r.calcCents), status |-> "pending",
   payed |-> FALSE, idempotencyKey |-> r.key,
   payment |-> [state |-> "none", paidBy |-> ""]]

\* Order.create(orderDoc) after the loop, and the 201
CreateOrderSave(s) ==
  /\ req[s].op = "createOrder" /\ req[s].pc = "items"
  /\ req[s].idx > Len(req[s].items)
  /\ orders' = Append(orders, OrderDoc(req[s]))
  /\ req' = [req EXCEPT ![s] =
       CreateOrderDone(req[s].user, req[s].key, Response(201, "", Len(orders) + 1))]
  /\ UNCHANGED <<products, started>>

\* the response has been sent: the slot is free again
Reply(s) ==
  /\ req[s].pc = "done"
  /\ req' = [req EXCEPT ![s] = Idle]
  /\ UNCHANGED <<products, orders, started>>

(* ------------------ PATCH /admin/orders/:id/status -------------------- *)

\* the item loop of a restock skips an item with no product reference, no
\* size or no positive quantity
Restockable(it) == it.product # NoProduct /\ it.size # "" /\ it.quantity > 0

\* one iteration of the restock loop of updateOrderStatus on the item it
RestockItem(it) ==
  IF Restockable(it)
  THEN RestockUpdate(it.product, Trim(it.color), Trim(it.size), it.quantity)
  ELSE products

\* one iteration of restockOrderItems on the item it
paymentsRestockItem(it) ==
  IF Restockable(it)
  THEN paymentsRestockUpdate(it.product, Trim(it.color), Trim(it.size), it.quantity)
  ELSE products

\* status === "cancelled" && previousStatus !== "cancelled"
ShouldRestock(status, previousStatus) ==
  status = "cancelled" /\ previousStatus # "cancelled"

\* an updateOrderStatus request that has returned
UpdateOrderStatusDone(caller, id, status, resp) ==
  [op |-> "updateOrderStatus", pc |-> "done", user |-> caller, id |-> id,
   status |-> status, resp |-> resp]

\* permitRoles("admin"), then updateOrderStatus from its entry to
\* Order.findById; id 0 stands for a string that is no ObjectId
UpdateOrderStatusStart(s, caller, id, status) ==
  /\ req[s].pc = "idle"
  /\ started < MaxRequests
  /\ started' = started + 1
  /\ req' = Disturb(s,
       IF Role(caller) # "admin"
       THEN UpdateOrderStatusDone(caller, id, status, Response(403, "Forbidden: insufficient role", 0))
       ELSE IF id = 0
       THEN UpdateOrderStatusDone(caller, id, status, Response(400, "Invalid order id", 0))
       ELSE IF status \notin validStatuses
       THEN UpdateOrderStatusDone(caller, id, status, Response(400, "Invalid status", 0))
       ELSE IF id \notin 1..Len(orders)
       THEN UpdateOrderStatusDone(caller, id, status, Response(404, "Order not found", 0))
       ELSE [op |-> "updateOrderStatus",
             pc |-> IF ShouldRestock(status, orders[id].status)
                    THEN "restock" ELSE "save",
             user |-> caller, id |-> id, status |-> status,
             previousStatus |-> orders[id].status, items |-> orders[id].items,
             idx |-> 1, alone |-> OthersQuiet(s), before |-> products])
  /\ UNCHANGED <<products, orders>>

\* one iteration of the restock loop of a cancellation
UpdateOrderStatusRestock(s) ==
  /\ req[s].op = "updateOrderStatus" /\ req[s].pc = "restock"
  /\ products' = RestockItem(req[s].items[req[s].idx])
  /\ req' = [req EXCEPT ![s].idx = @ + 1,
                        ![s].pc = IF req[s].idx < Len(req[s].items) THEN "restock" ELSE "save"]
  /\ UNCHANGED <<orders, started>>

\* order.status = status; await order.save(): the document's save writes
\* the paths the handler modified, and none when the value is the one read
UpdateOrderStatusSave(s) ==
  /\ req[s].op = "updateOrderStatus" /\ req[s].pc = "save"
  /\ orders' = IF req[s].status # req[s].previousStatus
               THEN [orders EXCEPT ![req[s].id].status = req[s].status]
               ELSE orders
  /\ req' = [req EXCEPT ![s] =
       [op |-> "updateOrderStatus", pc |-> "done", user |-> req[s].user,
        id |-> req[s].id, status |-> req[s].status,
        previousStatus |-> req[s].previousStatus, items |-> req[s].items,
        alone |-> req[s].alone, before |-> req[s].before,
        resp |-> Response(200, "", req[s].id)]]
  /\ UNCHANGED <<products, started>>

(* ------------------------- POST /payments/fake ------------------------ *)

\* a fakePayment request that has returned
FakePaymentDone(caller, id, simulate, resp) ==
  [op |-> "fakePayment", pc |-> "done", user |-> caller, id |-> id,
   simulate |-> simulate, resp |-> resp]

\* a payment endpoint open to every authenticated user
MayPayAnyone(caller, order) == TRUE

\* a payed check that never fires
AlreadyPayedNever(order) == FALSE

\* if (order.payed): "If already marked payed, return current order"
AlreadyPayed(order) == order.payed

\* "Only the order owner or admin may call this endpoint to pay"
MayPay(caller, order) == order.user = caller \/ Role(caller) = "admin"

\* fakePayment from its entry (behind the auth middleware) to the checks
\* on the order Order.findById returns
FakePaymentStart(s, caller, id, simulate) ==
  /\ req[s].pc = "idle"
  /\ started < MaxRequests
  /\ started' = started + 1
  /\ req' = Disturb(s,
       IF id = 0
       THEN FakePaymentDone(caller, id, simulate, Response(400, "Invalid orderId", 0))
       ELSE IF id \notin 1..Len(orders)
       THEN FakePaymentDone(caller, id, simulate, Response(404, "Order not found", 0))
       ELSE IF ~MayPay(caller, orders[id])
       THEN FakePaymentDone(caller, id, simulate, Response(403, "Forbidden", 0))
       ELSE IF AlreadyPayed(orders[id])
       THEN FakePaymentDone(caller, id, simulate, Response(200, "Already payed", id))
       ELSE [op |-> "fakePayment", pc |-> "save", user |-> caller, id |-> id,
             simulate |-> simulate, previousStatus |-> orders[id].status,
             items |-> orders[id].items, idx |-> 1, alone |-> OthersQuiet(s)])
  /\ UNCHANGED <<products, orders>>

\* await order.save() of either branch: success sets payed and the payment
\* metadata; failure sets status and the payment metadata (order.payed =
\* false leaves the value that was read, so it is not written)
FakePaymentSave(s) ==
  /\ req[s].op = "fakePayment" /\ req[s].pc = "save"
  /\ IF req[s].simulate = "success"
     THEN /\ orders' = [orders EXCEPT
               ![req[s].id].payed = TRUE,
               ![req[s].id].payment = [state |-> "paid", paidBy |-> req[s].user]]
          /\ req' = [req EXCEPT ![s] =
               FakePaymentDone(req[s].user, req[s].id, req[s].simulate,
                               Response(200, "ok", req[s].id))]
     ELSE /\ orders' = [orders EXCEPT
               ![req[s].id].status = IF req[s].previousStatus # "cancelled"
                                     THEN "cancelled" ELSE @,
               ![req[s].id].payment = [state |-> "failed", paidBy |-> req[s].user]]
          /\ req' = [req EXCEPT ![s].pc = "restock"]
  /\ UNCHANGED <<products, started>>

\* one iteration of restockOrderItems; after the last one the handler
\* returns 400
FakePaymentRestock(s) ==
  /\ req[s].op = "fakePayment" /\ req[s].pc = "restock"
  /\ products' = paymentsRestockItem(req[s].items[req[s].idx])
  /\ req' = [req EXCEPT ![s] =
       IF req[s].idx < Len(req[s].items)
       THEN [req[s] EXCEPT !.idx = @ + 1]
       ELSE FakePaymentDone(req[s].user, req[s].id, req[s].simulate,
                            Response(400, "Simulated payment failure", req[s].id))]
  /\ UNCHANGED <<orders, started>>

(* ------------------- auth middleware, role middleware ------------------ *)

\* a request without a token
NoToken == ""

\* the tokens of the model: none; one jwt.verify rejects (forged or
\* expired); one that verifies and whose payload names no user; and a token
\* that verifies and names an account (the token of account u is u)
Tokens == {NoToken, "forged", "anonymous", "u1", "adm", "mod"}

\* jwt.verify(token, secret) returns a payload
Verifies(token) == token # "forged"

\* payload.userId || payload.id || null, <<>> for null
PayloadUserId(token) == IF token = "anonymous" THEN <<>> ELSE <<token>>

\* User.findById(id): <<>> for null
FindUser(id) == IF id \in DOMAIN users THEN <<users[id]>> ELSE <<>>

\* a middleware that called next()
Passed == [status |-> 0, message |-> "next", order |-> 0]

\* what a middleware leaves behind: the response it sent or Passed, and
\* req.user (<<>> when it attached none)
Handled(resp, reqUser) == [resp |-> resp, reqUser |-> reqUser]

\* the user check of a middleware that accepts every stored user
UserRejectedIfMissing(user) == user = <<>>

\* !user || user.status !== "active"
UserRejected(user) == user = <<>> \/ user[1].status # "active"

\* authMiddleware(req, res, next)
authMiddleware(token) ==
  IF token = NoToken
  THEN Handled(Response(401, "Access token missing.", 0), <<>>)
  ELSE IF ~Verifies(token)
  THEN Handled(Response(401, "Invalid or expired token.", 0), <<>>)
  ELSE IF PayloadUserId(token) = <<>>
  THEN Handled(Response(401, "Invalid token payload.", 0), <<>>)
  ELSE IF UserRejected(FindUser(PayloadUserId(token)[1]))
  THEN Handled(Response(401, "Invalid or inactive user.", 0), <<>>)
  ELSE Handled(Passed, <<[id |-> PayloadUserId(token)[1],
                          role |-> users[PayloadUserId(token)[1]].role]>>)

\* a role middleware that lets every authenticated user through
permitRolesAnyRole(allowedRoles, reqUser) ==
  IF reqUser = <<>> THEN Response(401, "Unauthorized", 0) ELSE Passed

\* permitRoles(...allowedRoles)(req, res, next)
permitRoles(allowedRoles, reqUser) ==
  IF reqUser = <<>> THEN Response(401, "Unauthorized", 0)
  ELSE IF reqUser[1].role \notin allowedRoles
  THEN Response(403, "Forbidden: insufficient role", 0)
  ELSE Passed

\* the routes of the admin router, all behind
\* router.use(authMiddleware, permitRoles("admin"))
AdminRoutes ==
  {"getAllOrders", "updateOrderStatus", "adminSendMessage", "blockUser",
   "unblockUser", "deleteUser", "createProduct", "updateProduct", "deleteProduct"}

\* the routes of the model behind authMiddleware alone
UserRoutes == {"deleteAccount"}

\* the middleware in front of a route: what they leave behind
RouteGuard(route, token) ==
  IF authMiddleware(token).resp # Passed THEN authMiddleware(token)
  ELSE IF route \in AdminRoutes
  THEN Handled(permitRoles({"admin"}, authMiddleware(token).reqUser),
               authMiddleware(token).reqUser)
  ELSE authMiddleware(token)

\* a request to an account or catalogue route that has returned
RouteDone(route, resp) == [op |-> route, pc |-> "done", resp |-> resp]

\* a request whose middleware called next(): the handler is about to run
\* with req.user attached
RouteHandler(route, token, target, reqUser) ==
  [op |-> route, pc |-> "handler", token |-> token, target |-> target,
   user |-> reqUser.id, role |-> reqUser.role]

\* a request to a route from its arrival through its middleware; the
\* middleware's one database operation is User.findById
RouteStart(s, token, route, target) ==
  /\ req[s].pc = "idle"
  /\ started < MaxRequests
  /\ started' = started + 1
  /\ req' = Disturb(s,
       IF RouteGuard(route, token).resp # Passed
       THEN RouteDone(route, RouteGuard(route, token).resp)
       ELSE RouteHandler(route, token, target, RouteGuard(route, token).reqUser[1]))
  /\ UNCHANGED <<products, orders, users, messages, issued, blockedFrom>>

(* ------------- admin users: block, unblock, delete; deleteAccount ------ *)

\* accounts and ids an admin request may name: a customer, the admin, and
\* an id no user is stored under
UserTargets == {"u1", "adm", "u9"}

\* await user.save() of a document loaded as "loaded" and changed by the
\* handler to "modified": the paths whose value changed are written
SaveUser(id, loaded, modified) ==
  IF id \notin DOMAIN users THEN users
  ELSE [users EXCEPT ![id] =
          [f \in DOMAIN loaded |->
             IF modified[f] # loaded[f] THEN modified[f] ELSE users[id][f]]]

\* the response of a handler that saved a loaded document: the save of a
\* document that is gone throws (DocumentNotFoundError) when it has paths
\* to write, and the handler's catch answers 500
SaveResponse(id, loaded, modified) ==
  IF id \notin DOMAIN users /\ modified # loaded
  THEN Response(500, "Server error", 0)
  ELSE Response(200, "", 0)

\* an admin test that never fires
IsAdminUserNever(user) == FALSE

\* user.role === "admin"
IsAdminUser(user) == user.role = "admin"

\* a block that records the previous status every time
BlockedDocEveryTime(user) ==
  [user EXCEPT !.previousStatus = user.status, !.status = "banned"]

\* if (user.status !== "banned") user.previousStatus = user.status;
\* user.status = "banned"
BlockedDoc(user) ==
  [user EXCEPT !.previousStatus = IF user.status # "banned" THEN user.status ELSE @,
               !.status = "banned"]

\* restore = user.previousStatus || "active"; user.status = restore;
\* user.previousStatus = undefined
UnblockedDoc(user) ==
  [user EXCEPT !.status = IF user.previousStatus # Unset
                          THEN user.previousStatus ELSE "active",
               !.previousStatus = Unset]

\* a handler that has loaded the target's document and is about to write
Loaded(r, pc, user) ==
  [op |-> r.op, pc |-> pc, token |-> r.token, target |-> r.target,
   user |-> r.user, role |-> r.role, loaded |-> user]

\* User.findById(id) of the block and delete handlers and the tests on its
\* result: the response sent, or Passed
FindTarget(id, message) ==
  IF FindUser(id) = <<>> THEN Response(404, "Not found", 0)
  ELSE IF IsAdminUser(FindUser(id)[1]) THEN Response(403, message, 0)
  ELSE Passed

\* PATCH /users/:id/block up to User.findById
BlockFind(s) ==
  /\ req[s].op = "blockUser" /\ req[s].pc = "handler"
  /\ req' = [req EXCEPT ![s] =
       IF FindTarget(req[s].target, "Cannot block admin users") # Passed
       THEN RouteDone(req[s].op,
                      FindTarget(req[s].target, "Cannot block admin users"))
       ELSE Loaded(req[s], "save", users[req[s].target])]
  /\ UNCHANGED <<products, orders, started, users, messages, issued, blockedFrom>>

\* PATCH /users/:id/block: await user.save()
BlockSave(s) ==
  /\ req[s].op = "blockUser" /\ req[s].pc = "save"
  /\ users' = SaveUser(req[s].target, req[s].loaded, BlockedDoc(req[s].loaded))
  /\ blockedFrom' =
       IF req[s].target \in DOMAIN users /\ blockedFrom[req[s].target] = Unset
       THEN [blockedFrom EXCEPT ![req[s].target] = users[req[s].target].status]
       ELSE blockedFrom
  /\ req' = [req EXCEPT ![s] =
       RouteDone(req[s].op,
                 SaveResponse(req[s].target, req[s].loaded, BlockedDoc(req[s].loaded)))]
  /\ UNCHANGED <<products, orders, started, messages, issued>>

\* PATCH /users/:id/unblock up to User.findById
UnblockFind(s) ==
  /\ req[s].op = "unblockUser" /\ req[s].pc = "handler"
  /\ req' = [req EXCEPT ![s] =
       IF FindUser(req[s].target) = <<>>
       THEN RouteDone(req[s].op, Response(404, "Not found", 0))
       ELSE Loaded(req[s], "save", users[req[s].target])]
  /\ UNCHANGED <<products, orders, started, users, messages, issued, blockedFrom>>

\* PATCH /users/:id/unblock: await user.save()
UnblockSave(s) ==
  /\ req[s].op = "unblockUser" /\ req[s].pc = "save"
  /\ users' = SaveUser(req[s].target, req[s].loaded, UnblockedDoc(req[s].loaded))
  /\ blockedFrom' = [blockedFrom EXCEPT ![req[s].target] = Unset]
  /\ req' = [req EXCEPT ![s] =
       RouteDone(req[s].op,
                 SaveResponse(req[s].target, req[s].loaded, UnblockedDoc(req[s].loaded)))]
  /\ UNCHANGED <<products, orders, started, messages, issued>>

\* DELETE /users/:id up to User.findById
DeleteUserFind(s) ==
  /\ req[s].op = "deleteUser" /\ req[s].pc = "handler"
  /\ req' = [req EXCEPT ![s] =
       IF FindTarget(req[s].target, "Cannot delete admin users") # Passed
       THEN RouteDone(req[s].op,
                      FindTarget(req[s].target, "Cannot delete admin users"))
       ELSE Loaded(req[s], "delete", users[req[s].target])]
  /\ UNCHANGED <<products, orders, started, users, messages, issued, blockedFrom>>

\* DELETE /users/:id: await User.findByIdAndDelete(id)
DeleteUserDelete(s) ==
  /\ req[s].op = "deleteUser" /\ req[s].pc = "delete"
  /\ users' = [u \in DOMAIN users \ {req[s].target} |-> users[u]]
  /\ blockedFrom' = [blockedFrom EXCEPT ![req[s].target] = Unset]
  /\ req' = [req EXCEPT ![s] =
       RouteDone(req[s].op, Response(200, "", 0))]
  /\ UNCHANGED <<products, orders, started, messages, issued>>

\* deleteAccount: User.findByIdAndUpdate(req.user._id, {status: "deleted"})
DeleteAccount(s) ==
  /\ req[s].op = "deleteAccount" /\ req[s].pc = "handler"
  /\ users' = IF req[s].user \in DOMAIN users
              THEN [users EXCEPT ![req[s].user].status = "deleted"]
              ELSE users
  /\ blockedFrom' = [blockedFrom EXCEPT ![req[s].user] = Unset]
  /\ req' = [req EXCEPT ![s] =
       RouteDone(req[s].op, Response(200, "Account deleted.", 0))]
  /\ UNCHANGED <<products, orders, started, messages, issued>>

(* ------------- admin catalogue, messages and order listing ------------- *)

\* the _id of the products createProduct stores, in order of creation
NewProductIds == <<"n1", "n2", "n3", "n4", "n5">>

\* the _id of the next product stored
FreshProductId ==
  NewProductIds[Cardinality({i \in DOMAIN NewProductIds :
                               NewProductIds[i] \in DOMAIN products}) + 1]

\* Number(p.toFixed(2)) on a price in mills
ToFixed2(mills) == MathRoundCents(mills) * 10

\* the price of the request bodies of createProduct and updateProduct
BodyPrice == 1250

\* computeSalePrice for a product without an active discount: the base
\* price to two decimals
computeSalePrice(price) == <<ToFixed2(price)>>

\* ids an admin request may name in the catalogue: a product without a
\* discount and an id no product is stored under
ProductTargets == {"p2", "p9"}

\* createProduct: new Product(body).save(), whose pre("save") hook sets
\* salePrice; "invalid" is a body the schema's validators reject
CreateProduct(s) ==
  /\ req[s].op = "createProduct" /\ req[s].pc = "handler"
  /\ IF req[s].target = "invalid"
     THEN /\ products' = products
          /\ req' = [req EXCEPT ![s] =
               RouteDone(req[s].op,
                         Response(400, "Product validation failed", 0))]
     ELSE /\ products' =
               [p \in DOMAIN products \cup {FreshProductId} |->
                  IF p \in DOMAIN products THEN products[p]
                  ELSE [price |-> BodyPrice, salePrice |-> computeSalePrice(BodyPrice),
                        variations |-> <<>>]]
          /\ req' = [req EXCEPT ![s] =
               RouteDone(req[s].op, Response(201, "", 0))]
  /\ UNCHANGED <<orders, started, users, messages, issued, blockedFrom>>

\* updateProduct: the pre("findOneAndUpdate") hook reads the document
\* (findOne) to compute salePrice from the merged values
UpdateProductFind(s) ==
  /\ req[s].op = "updateProduct" /\ req[s].pc = "handler"
  /\ req' = [req EXCEPT ![s].pc = "update"]
  /\ UNCHANGED <<products, orders, started, users, messages, issued, blockedFrom>>

\* updateProduct: Product.findByIdAndUpdate(id, {...body, updatedAt}) with
\* the salePrice the hook added
UpdateProductUpdate(s) ==
  /\ req[s].op = "updateProduct" /\ req[s].pc = "update"
  /\ IF req[s].target \in DOMAIN products
     THEN /\ products' = [products EXCEPT
               ![req[s].target].price = BodyPrice,
               ![req[s].target].salePrice = computeSalePrice(BodyPrice)]
          /\ req' = [req EXCEPT ![s] =
               RouteDone(req[s].op, Response(200, "", 0))]
     ELSE /\ products' = products
          /\ req' = [req EXCEPT ![s] =
               RouteDone(req[s].op, Response(404, "Not found", 0))]
  /\ UNCHANGED <<orders, started, users, messages, issued, blockedFrom>>

\* deleteProduct: Product.findByIdAndDelete(id)
DeleteProduct(s) ==
  /\ req[s].op = "deleteProduct" /\ req[s].pc = "handler"
  /\ products' = [p \in DOMAIN products \ {req[s].target} |-> products[p]]
  /\ req' = [req EXCEPT ![s] =
       RouteDone(req[s].op,
                 IF req[s].target \in DOMAIN products
                 THEN Response(200, "", 0) ELSE Response(404, "Not found", 0))]
  /\ UNCHANGED <<orders, started, users, messages, issued, blockedFrom>>

\* adminSendMessage up to User.findById(userId); the target "" is a body
\* without userId
MessageFind(s) ==
  /\ req[s].op = "adminSendMessage" /\ req[s].pc = "handler"
  /\ req' = [req EXCEPT ![s] =
       IF req[s].target = ""
       THEN RouteDone(req[s].op,
                      Response(400, "userId and content are required", 0))
       ELSE IF FindUser(req[s].target) = <<>>
       THEN RouteDone(req[s].op,
                      Response(404, "Target user not found", 0))
       ELSE [req[s] EXCEPT !.pc = "conversation"]]
  /\ UNCHANGED <<products, orders, started, users, messages, issued, blockedFrom>>

\* adminSendMessage: Conversation.create({participants: [adminId, userId]})
MessageConversation(s) ==
  /\ req[s].op = "adminSendMessage" /\ req[s].pc = "conversation"
  /\ messages' = Append(messages, [kind |-> "conversation", from |-> req[s].user,
                                   to |-> req[s].target])
  /\ req' = [req EXCEPT ![s].pc = "message"]
  /\ UNCHANGED <<products, orders, started, users, issued, blockedFrom>>

\* adminSendMessage: Message.create({conversation, from, to, content})
MessageCreate(s) ==
  /\ req[s].op = "adminSendMessage" /\ req[s].pc = "message"
  /\ messages' = Append(messages, [kind |-> "message", from |-> req[s].user,
                                   to |-> req[s].target])
  /\ req' = [req EXCEPT ![s] =
       RouteDone(req[s].op, Response(201, "", 0))]
  /\ UNCHANGED <<products, orders, started, users, issued, blockedFrom>>

\* getAllOrders: Order.find({}) and the response
GetAllOrders(s) ==
  /\ req[s].op = "getAllOrders" /\ req[s].pc = "handler"
  /\ req' = [req EXCEPT ![s] =
       RouteDone(req[s].op, Response(200, "", 0))]
  /\ UNCHANGED <<products, orders, started, users, messages, issued, blockedFrom>>

\* PATCH /admin/orders/:id/status from its arrival: the middleware and,
\* when they pass, the handler up to Order.findById
AdminOrderStatus(s, token, id, status) ==
  IF RouteGuard("updateOrderStatus", token).resp # Passed
  THEN RouteStart(s, token, "updateOrderStatus", "order")
  ELSE /\ UpdateOrderStatusStart(s, RouteGuard("updateOrderStatus", token).reqUser[1].id,
                                 id, status)
       /\ UNCHANGED <<users, messages, issued, blockedFrom>>

(* ------------------ requestMagicLink and magicLogin ------------------- *)

\* the emails of the request bodies: none, the one of account u1 (an
\* account's email is written as its id), and one no account has
Emails == {"", "u1", "nobody"}

\* User.findOne({email})
FindByEmail(email) == IF email \in DOMAIN users THEN <<users[email]>> ELSE <<>>

\* a requestMagicLink or magicLogin request that has returned
MagicDone(op, link, resp) == [op |-> op, pc |-> "done", link |-> link, resp |-> resp]

\* requestMagicLink up to User.findOne; crypto.randomBytes(32) gives a
\* token no earlier request has drawn, written as the request's number
RequestMagicLinkStart(s, email) ==
  /\ req[s].pc = "idle"
  /\ started < MaxRequests
  /\ started' = started + 1
  /\ req' = Disturb(s,
       IF email = ""
       THEN MagicDone("requestMagicLink", 0, Response(400, "Email is required.", 0))
       ELSE IF FindByEmail(email) = <<>>
       THEN MagicDone("requestMagicLink", 0, Response(404, "No account with that email.", 0))
       ELSE [op |-> "requestMagicLink", pc |-> "save", target |-> email,
             link |-> started + 1])
  /\ UNCHANGED <<products, orders, users, messages, issued, blockedFrom>>

\* requestMagicLink: user.magicLinkToken = token; user.magicLinkExpiry =
\* Date.now() + 15 min; await user.save(); the email carries the token
RequestMagicLinkSave(s) ==
  /\ req[s].op = "requestMagicLink" /\ req[s].pc = "save"
  /\ users' = IF req[s].target \in DOMAIN users
              THEN [users EXCEPT ![req[s].target].magicLinkToken = req[s].link,
                                 ![req[s].target].magicLinkExpiry = "valid"]
              ELSE users
  /\ req' = [req EXCEPT ![s] =
       MagicDone("requestMagicLink", req[s].link,
                 Response(200, "Magic link sent! Check your email.", 0))]
  /\ UNCHANGED <<products, orders, started, messages, issued, blockedFrom>>

\* fifteen minutes pass: Date.now() is now past the magicLinkExpiry of u
LinkExpires(u) ==
  /\ u \in DOMAIN users
  /\ users[u].magicLinkExpiry = "valid"
  /\ users' = [users EXCEPT ![u].magicLinkExpiry = "past"]
  /\ UNCHANGED <<products, orders, req, started, messages, issued, blockedFrom>>

\* User.findOne({magicLinkToken: token, magicLinkExpiry: {$gt: Date.now()}})
FindByMagicLink(token) ==
  {u \in DOMAIN users :
     users[u].magicLinkToken = token /\ users[u].magicLinkExpiry = "valid"}

\* magicLogin up to User.findOne; token 0 is a query without token
MagicLoginStart(s, token) ==
  /\ req[s].pc = "idle"
  /\ started < MaxRequests
  /\ started' = started + 1
  /\ IF token = 0
     THEN req' = Disturb(s, MagicDone("magicLogin", token,
                                      Response(400, "Token is required.", 0)))
     ELSE IF FindByMagicLink(token) = {}
     THEN req' = Disturb(s, MagicDone("magicLogin", token,
                                      Response(400, "Invalid or expired magic link.", 0)))
     ELSE \E u \in FindByMagicLink(token) :
            req' = Disturb(s, [op |-> "magicLogin", pc |-> "save", link |-> token,
                               user |-> u])
  /\ UNCHANGED <<products, orders, users, messages, issued, blockedFrom>>

\* magicLogin: the token and its expiry are unset and a session is pushed
\* in user.save(); then the response sets the two cookies and redirects
MagicLoginSave(s) ==
  /\ req[s].op = "magicLogin" /\ req[s].pc = "save"
  /\ IF req[s].user \in DOMAIN users
     THEN /\ users' = [users EXCEPT ![req[s].user].magicLinkToken = 0,
                                    ![req[s].user].magicLinkExpiry = "unset",
                                    ![req[s].user].sessions = @ + 1]
          /\ issued' = Append(issued, [user |-> req[s].user, link |-> req[s].link])
          /\ req' = [req EXCEPT ![s] =
               MagicDone("magicLogin", req[s].link, Response(302, "", 0))]
     ELSE /\ UNCHANGED <<users, issued>>
          /\ req' = [req EXCEPT ![s] =
               MagicDone("magicLogin", req[s].link,
                         Response(500, "Server error during magic login.", 0))]
  /\ UNCHANGED <<products, orders, started, messages, blockedFrom>>

(* --------------------------- specifications --------------------------- *)

\* order ids a client may send: a malformed one (0), the stored ones, and
\* one that is not stored
OrderIdChoices == 0..(Len(orders) + 1)

\* statuses a client may send ("paid" is no longer a valid status)
StatusChoices == {"pending", "shipped", "cancelled", "paid"}

CreateOrderSteps ==
  /\ \E s \in Slots :
       \/ CreateOrderItem(s)
       \/ CreateOrderRollback(s)
       \/ CreateOrderSave(s)
       \/ Reply(s)
  /\ UNCHANGED accountVars

\* carts without idempotency keys, by one customer
CreateOrderAnyCart ==
  /\ \E s \in Slots, payload \in {"ok", "invalid", "blankShipping"}, items \in Carts :
       \E totalPrice \in TotalChoices(items) :
         CreateOrderStart(s, "u1", payload, items, totalPrice, NoKey)
  /\ UNCHANGED accountVars

UpdateOrderStatus ==
  /\ \E s \in Slots :
       \/ \E caller \in {"adm", "u1"}, id \in OrderIdChoices, status \in StatusChoices :
            UpdateOrderStatusStart(s, caller, id, status)
       \/ UpdateOrderStatusRestock(s)
       \/ UpdateOrderStatusSave(s)
  /\ UNCHANGED accountVars

FakePayment ==
  /\ \E s \in Slots :
       \/ \E caller \in Users, id \in OrderIdChoices, simulate \in {"success", "fail"} :
            FakePaymentStart(s, caller, id, simulate)
       \/ FakePaymentSave(s)
       \/ FakePaymentRestock(s)
  /\ UNCHANGED accountVars

Next ==
  \/ CreateOrderAnyCart
  \/ CreateOrderSteps
  \/ UpdateOrderStatus
  \/ FakePayment

Spec == Init /\ [][Next]_vars

\* createOrder requests only: no cancellation, no payment
NextCreate ==
  \/ CreateOrderAnyCart
  \/ CreateOrderSteps

\* the carts sent with idempotency keys
KeyedCarts == {<<ItemGift>>, <<ItemRed(1)>>, <<ItemRed(1), ItemGreen>>, <<ItemGone>>}

\* carts by two customers, with and without an idempotency key
CreateOrderKeyed ==
  /\ \E s \in Slots, userId \in {"u1", "u2"}, key \in {NoKey, "k1"},
        payload \in {"ok", "invalid"}, items \in KeyedCarts :
       \E totalPrice \in TotalChoices(items) :
         CreateOrderStart(s, userId, payload, items, totalPrice, key)
  /\ UNCHANGED accountVars

NextKeyed ==
  \/ CreateOrderKeyed
  \/ CreateOrderSteps

SpecKeyed == Init /\ [][NextKeyed]_vars

SpecCreate == Init /\ [][NextCreate]_vars

(* ------------------- specifications of the account routes -------------- *)

\* what the params or the body of a request to a route may name
RouteTargets(route) ==
  CASE route \in {"blockUser", "unblockUser", "deleteUser"} -> UserTargets
    [] route = "adminSendMessage" -> {"", "u1", "u9"}
    [] route = "createProduct" -> {"body", "invalid"}
    [] route \in {"updateProduct", "deleteProduct"} -> ProductTargets
    [] OTHER -> {"none"}

\* the response has been sent: the slot takes the next request
NextRequest ==
  /\ \E s \in Slots : Reply(s)
  /\ UNCHANGED accountVars

\* the handlers of the user administration routes of the admin router
UserAdminHandlers(s) ==
  \/ BlockFind(s)
  \/ BlockSave(s)
  \/ UnblockFind(s)
  \/ UnblockSave(s)
  \/ DeleteUserFind(s)
  \/ DeleteUserDelete(s)

\* the handlers of the user administration routes and of deleteAccount
UserHandlers ==
  \E s \in Slots :
    \/ UserAdminHandlers(s)
    \/ DeleteAccount(s)

\* the routes of the user administration specification
UserAdminRoutes == {"blockUser", "unblockUser", "deleteUser", "deleteAccount"}

\* requests to the user administration routes and to deleteAccount, with
\* every kind of token
UserRequest ==
  \E s \in Slots, token \in Tokens, route \in UserAdminRoutes :
    \E target \in RouteTargets(route) : RouteStart(s, token, route, target)

NextUsers ==
  \/ UserRequest
  \/ UserHandlers
  \/ NextRequest

\* concurrent requests to block, unblock and delete users and to delete
\* one's own account
SpecUsers == Init /\ [][NextUsers]_vars

\* the same requests, one at a time
UserRequestInTurn ==
  \E s \in Slots, token \in Tokens, route \in UserAdminRoutes :
    \E target \in RouteTargets(route) :
      OthersQuiet(s) /\ RouteStart(s, token, route, target)

NextInTurn ==
  \/ UserRequestInTurn
  \/ UserHandlers
  \/ NextRequest

SpecInTurn == Init /\ [][NextInTurn]_vars

\* a store with one pending order of u1 for one red M of p1
InitAdmin ==
  /\ products = [InitProducts EXCEPT !["p1"].variations[1].stockBySize["M"] = @ - 1]
  /\ orders = << [user |-> "u1",
                  items |-> <<[product |-> "p1", color |-> "RED", size |-> "M",
                               quantity |-> 1, price |-> 1500]>>,
                  totalPrice |-> 1500, status |-> "pending", payed |-> FALSE,
                  idempotencyKey |-> NoKey,
                  payment |-> [state |-> "none", paidBy |-> ""]] >>
  /\ req = [s \in Slots |-> Idle]
  /\ started = 0
  /\ users = InitUsers
  /\ messages = <<>>
  /\ issued = <<>>
  /\ blockedFrom = [u \in Accounts |-> Unset]

\* the tokens sent to the admin router: none, a customer's, the admin's and
\* a moderator's
AdminTokens == {NoToken, "u1", "adm", "mod"}

\* requests to the routes of the admin router
AdminRequest ==
  \/ \E s \in Slots, token \in AdminTokens, route \in AdminRoutes \ {"updateOrderStatus"} :
       \E target \in RouteTargets(route) : RouteStart(s, token, route, target)
  \/ \E s \in Slots, token \in AdminTokens, status \in {"shipped", "cancelled"} :
       AdminOrderStatus(s, token, 1, status)

\* the handlers of the admin router
AdminHandlers ==
  \/ \E s \in Slots :
       \/ UserAdminHandlers(s)
       \/ CreateProduct(s)
       \/ UpdateProductFind(s)
       \/ UpdateProductUpdate(s)
       \/ DeleteProduct(s)
       \/ MessageFind(s)
       \/ MessageConversation(s)
       \/ MessageCreate(s)
       \/ GetAllOrders(s)
  \/ \E s \in Slots : UpdateOrderStatusRestock(s) /\ UNCHANGED accountVars
  \/ \E s \in Slots : UpdateOrderStatusSave(s) /\ UNCHANGED accountVars

NextAdmin ==
  \/ AdminRequest
  \/ AdminHandlers
  \/ NextRequest

SpecAdmin == InitAdmin /\ [][NextAdmin]_vars

\* the link tokens a magicLogin request may carry: none (0), and any token
\* that may have been mailed
LinkChoices == 0..MaxRequests

NextMagic ==
  \/ \E s \in Slots, email \in Emails : RequestMagicLinkStart(s, email)
  \/ \E s \in Slots : RequestMagicLinkSave(s)
  \/ \E u \in Accounts : LinkExpires(u)
  \/ \E s \in Slots, token \in LinkChoices : MagicLoginStart(s, token)
  \/ \E s \in Slots : MagicLoginSave(s)
  \/ NextRequest

SpecMagic == Init /\ [][NextMagic]_vars

(* ------------------------- stock keeping units ------------------------ *)

RECURSIVE SumFrom(_, _)
SumFrom(numbers, k) ==
  IF k > Len(numbers) THEN 0 ELSE numbers[k] + SumFrom(numbers, k + 1)

\* the sum of a sequence of numbers
Sum(numbers) == SumFrom(numbers, 1)

\* a stock keeping unit: a product, a colour up to case, and a size
Skus == {<<p, c, z>> : p \in ProductIds, c \in {"red", "blue", "black"}, z \in Sizes}

\* the stock count of a SKU in a Product collection: the variations of
\* that colour, taken together
SkuStock(prods, sku) ==
  Sum([i \in 1..Len(prods[sku[1]].variations) |->
         IF Lower(prods[sku[1]].variations[i].color) = sku[2]
         THEN prods[sku[1]].variations[i].stockBySize[sku[3]] ELSE 0])

\* the quantity of a SKU in the items of one order
ItemsQty(items, sku) ==
  Sum([k \in 1..Len(items) |->
         IF /\ items[k].product = sku[1]
            /\ Lower(Trim(items[k].color)) = sku[2]
            /\ Trim(items[k].size) = sku[3]
         THEN items[k].quantity ELSE 0])

\* the quantity of a SKU over the stored orders that are not cancelled
OrderedQty(sku) ==
  Sum([i \in 1..Len(orders) |->
         IF orders[i].status # "cancelled" THEN ItemsQty(orders[i].items, sku) ELSE 0])

Quiescent == \A s \in Slots : ~InProgress(s)

(* ------------------------------- claims ------------------------------- *)

\* C1: in every reachable state, under any interleaving of createOrder,
\* updateOrderStatus and fakePayment requests, every stored stock count
\* (product, variation, size) is >= 0.
StockNeverNegative ==
  \A p \in ProductIds :
    \A i \in 1..Len(products[p].variations) :
      \A z \in Sizes : products[p].variations[i].stockBySize[z] >= 0

\* a createOrder was refused for lack of stock while the red SKU is sold out
StockNeverNegativeWitness ==
  /\ SkuStock(products, <<"p1", "red", "M">>) = 0
  /\ \E s \in Slots :
       /\ req[s].op = "createOrder" /\ req[s].pc = "done"
       /\ req[s].resp.message = "Not enough stock"

\* C2: whenever no request is in progress, for every SKU the stock count
\* plus the quantity of that SKU over the stored orders that are not
\* cancelled equals the initial stock count.
StockConservation ==
  Quiescent =>
    \A sku \in Skus :
      SkuStock(products, sku) + OrderedQty(sku) = SkuStock(InitProducts, sku)

\* C3: with createOrder requests only (no cancellation), the quantity of a
\* SKU over the orders created never exceeds the stock count before the
\* requests started.
NoOverselling ==
  \A sku \in Skus : OrderedQty(sku) <= SkuStock(InitProducts, sku)

\* two orders have taken the whole red stock and a concurrent third request
\* was refused
NoOversellingWitness ==
  /\ Len(orders) >= 2
  /\ OrderedQty(<<"p1", "red", "M">>) = SkuStock(InitProducts, <<"p1", "red", "M">>)
  /\ \E s \in Slots :
       /\ req[s].op = "createOrder" /\ req[s].pc = "done"
       /\ req[s].resp.message = "Not enough stock"
       /\ ~req[s].alone

\* C4: for each user and each non-empty idempotency key, at most one order
\* carrying that key is ever stored.
AtMostOneOrderPerKey ==
  \A u \in Users :
    \A i, j \in 1..Len(orders) :
      (/\ orders[i].idempotencyKey # NoKey
       /\ orders[i].idempotencyKey = orders[j].idempotencyKey
       /\ orders[i].user = u /\ orders[j].user = u) => i = j

\* the inputs of createOrder in the model
CreateOrderInputs ==
  UNION {{<<u, p, c, t, k>> : u \in {"u1", "u2"},
                              p \in {"ok", "invalid", "blankShipping"},
                              t \in TotalChoices(c), k \in {NoKey, "k1"}} : c \in Carts}

\* the inputs of createOrder that carry the keyed carts
KeyedInputs == {in \in CreateOrderInputs : in[3] \in KeyedCarts}

\* this step is slot s entering createOrder
EntersCreateOrder(s) ==
  req[s].pc = "idle" /\ req'[s].pc # "idle" /\ req'[s].op = "createOrder"

\* C5: a valid createOrder request carrying a key for which the same user
\* has a stored order answers 200 with such an order, changes no stock and
\* stores no order, whatever its items and total; and an order a createOrder
\* answers 200 with belongs to the caller and carries the key.
IdempotentReplay ==
  [][\A s \in Slots : EntersCreateOrder(s) => \A in \in KeyedInputs :
       (/\ req'[s].user = in[1] /\ req'[s].key = in[5]
        /\ CreateOrderStart(s, in[1], in[2], in[3], in[4], in[5])) =>
         /\ (/\ in[2] # "invalid" /\ in[5] # NoKey
             /\ \E i \in 1..Len(orders) :
                  orders[i].user = in[1] /\ orders[i].idempotencyKey = in[5])
            => /\ req'[s].pc = "done" /\ req'[s].resp.status = 200
               /\ req'[s].resp.order \in 1..Len(orders)
               /\ products' = products /\ orders' = orders
         /\ (req'[s].pc = "done" /\ req'[s].resp.status = 200)
            => /\ orders[req'[s].resp.order].user = in[1]
               /\ orders[req'[s].resp.order].idempotencyKey = in[5]
               /\ in[5] # NoKey]_vars

\* a replay was answered 200 while another user's order with the same key
\* is stored
IdempotentReplayWitness ==
  \E s \in Slots :
    /\ req[s].op = "createOrder" /\ req[s].pc = "done" /\ req[s].resp.status = 200
    /\ \E i \in 1..Len(orders) :
         orders[i].idempotencyKey = req[s].key /\ orders[i].user # req[s].user

\* C6: a createOrder that finds no stock or no variation for its k-th item
\* answers 400, stores no order and, with no other request running, leaves
\* every SKU's stock count at its value before the request.
CompensatingRollback ==
  \A s \in Slots :
    (req[s].op = "createOrder" /\ req[s].pc = "done"
       /\ req[s].resp.message = "Not enough stock")
    => /\ req[s].resp.status = 400
       /\ req[s].alone =>
            /\ orders = req[s].ordersBefore
            /\ \A sku \in Skus : SkuStock(products, sku) = SkuStock(req[s].before, sku)

\* a request running alone was refused on its second item after it had
\* decremented the first
CompensatingRollbackWitness ==
  \E s \in Slots :
    /\ req[s].op = "createOrder" /\ req[s].pc = "done"
    /\ req[s].resp.message = "Not enough stock"
    /\ req[s].alone
    /\ Len(req[s].decremented) >= 1

\* the unit price the database holds for an item, in cents: the product's
\* salePrice when it has one, else its price; an item without a product
\* reference has only the price the client sent
AuthoritativeUnitCents(it) ==
  IF it.product = NoProduct THEN MathRoundCents(it.price)
  ELSE IF InitProducts[it.product].salePrice # <<>>
       THEN MathRoundCents(InitProducts[it.product].salePrice[1])
       ELSE MathRoundCents(InitProducts[it.product].price)

\* sum over the items of unit price in cents times quantity
AuthoritativeTotalCents(items) ==
  Sum([k \in 1..Len(items) |-> AuthoritativeUnitCents(items[k]) * items[k].quantity])

\* C7: createOrder goes on to reserve stock and store an order only when
\* the submitted total, rounded to cents, equals the total recomputed from
\* the database prices; when it compares and they differ it answers 400
\* "totalPrice mismatch" and changes no stock and no order; a stored order
\* carries the recomputed total.
PriceRecomputation ==
  [][/\ \A s \in Slots : EntersCreateOrder(s) => \A in \in CreateOrderInputs :
          CreateOrderStart(s, in[1], in[2], in[3], in[4], in[5]) =>
            LET items == JoiItems(in[3])
                submittedCents == MathRoundCents(JoiPrecision2(in[4]))
                compares == /\ in[2] # "invalid"
                            /\ ~(in[5] # NoKey /\ OrdersWithKey(in[5], in[1]) # {})
                            /\ \A k \in 1..Len(items) :
                                 items[k].product \in ProductIds \cup {NoProduct}
            IN  /\ req'[s].pc # "done" =>
                     compares /\ submittedCents = AuthoritativeTotalCents(items)
                /\ (compares /\ submittedCents # AuthoritativeTotalCents(items)) =>
                     /\ req'[s].pc = "done"
                     /\ req'[s].resp.status = 400
                     /\ req'[s].resp.message = "totalPrice mismatch"
                     /\ products' = products /\ orders' = orders
     /\ \A s \in Slots :
          (req'[s].op = "createOrder" /\ req'[s].pc \in {"items", "rollback"}) =>
            MathRoundCents(req'[s].totalPrice) = AuthoritativeTotalCents(req'[s].items)
     /\ \A i \in 1..Len(orders') :
          orders'[i].totalPrice = CentsToPrice(AuthoritativeTotalCents(orders'[i].items))]_vars

\* an order of a gift card and a sale-priced item is stored, and a request
\* was refused for its total
PriceRecomputationWitness ==
  /\ \E i \in 1..Len(orders) : Len(orders[i].items) = 2 /\ orders[i].totalPrice = 1750
  /\ \E s \in Slots :
       /\ req[s].op = "createOrder" /\ req[s].pc = "done"
       /\ req[s].resp.message = "totalPrice mismatch"

\* this step is taken by the handler of slot s
StepOf(s, op) ==
  /\ req'[s] # req[s]
  /\ \/ req[s].op = op /\ req[s].pc # "done"
     \/ req[s].pc = "idle" /\ req'[s].op = op

\* C8: an updateOrderStatus to "cancelled" on an order whose stored status
\* is not "cancelled" adds each item's quantity back to the stock count of
\* the item's SKU and then sets the status to "cancelled"; on an order that
\* is already cancelled, or with any other new status, it changes no stock.
RestockOnCancel ==
  [][\A s \in Slots :
       /\ (StepOf(s, "updateOrderStatus") /\ products' # products) =>
            /\ req[s].status = "cancelled"
            /\ req[s].previousStatus # "cancelled"
            /\ req[s].alone => orders[req[s].id].status = req[s].previousStatus
       /\ (/\ req'[s].op = "updateOrderStatus" /\ req'[s].pc = "done"
           /\ "alone" \in DOMAIN req'[s] /\ req'[s].alone) =>
            LET r == req'[s]
            IN  IF r.status = "cancelled" /\ r.previousStatus # "cancelled"
                THEN /\ orders'[r.id].status = "cancelled"
                     /\ \A sku \in Skus :
                          SkuStock(products', sku) =
                            SkuStock(r.before, sku) + ItemsQty(r.items, sku)
                ELSE products' = r.before]_vars

\* an admin, with no other request running, has cancelled a pending order
\* that holds a stocked item
RestockOnCancelWitness ==
  \E s \in Slots :
    /\ req[s].op = "updateOrderStatus" /\ req[s].pc = "done"
    /\ req[s].resp.status = 200 /\ req[s].alone
    /\ req[s].status = "cancelled" /\ req[s].previousStatus = "pending"
    /\ ItemsQty(req[s].items, <<"p1", "red", "M">>) > 0

\* this step is slot s entering fakePayment
EntersFakePayment(s) ==
  req[s].pc = "idle" /\ req'[s].pc # "idle" /\ req'[s].op = "fakePayment"

\* the inputs of fakePayment in the model
FakePaymentInputs ==
  {<<caller, id, simulate>> :
     caller \in Users, id \in 0..MaxRequests, simulate \in {"success", "fail"}}

\* C9 as stated: once an order's payed flag is true, every later
\* fakePayment request for it answers 200 "Already payed" and changes
\* neither the order nor any stock count.
AlreadyPayedForEveryCaller ==
  [][\A s \in Slots : EntersFakePayment(s) => \A in \in FakePaymentInputs :
       (/\ FakePaymentStart(s, in[1], in[2], in[3])
        /\ in[2] \in 1..Len(orders) /\ orders[in[2]].payed) =>
         /\ req'[s].pc = "done"
         /\ req'[s].resp = Response(200, "Already payed", in[2])
         /\ orders' = orders /\ products' = products]_vars

\* C9 as amended: once an order's payed flag is true, every later
\* fakePayment request for it by its owner or an admin answers 200 "Already
\* payed", one by any other user answers 403, and none changes the order or
\* any stock count.
AlreadyPayedIdempotent ==
  [][\A s \in Slots : EntersFakePayment(s) => \A in \in FakePaymentInputs :
       (/\ FakePaymentStart(s, in[1], in[2], in[3])
        /\ in[2] \in 1..Len(orders) /\ orders[in[2]].payed) =>
         /\ req'[s].pc = "done"
         /\ req'[s].resp =
              IF orders[in[2]].user = in[1] \/ Role(in[1]) = "admin"
              THEN Response(200, "Already payed", in[2])
              ELSE Response(403, "Forbidden", 0)
         /\ orders' = orders /\ products' = products]_vars

\* a payment simulating failure was answered "Already payed"
AlreadyPayedIdempotentWitness ==
  \E s \in Slots :
    /\ req[s].op = "fakePayment" /\ req[s].pc = "done"
    /\ req[s].simulate = "fail"
    /\ req[s].resp.message = "Already payed"
    /\ orders[req[s].id].payed /\ orders[req[s].id].status = "pending"

\* C10: fakePayment changes an order or a stock count only for a caller who
\* owns the order or is an admin; for any other caller of a stored order it
\* answers 403 and changes nothing.
OnlyOwnerOrAdminPays ==
  [][\A s \in Slots :
       /\ EntersFakePayment(s) => \A in \in FakePaymentInputs :
            (/\ FakePaymentStart(s, in[1], in[2], in[3])
             /\ in[2] \in 1..Len(orders)
             /\ orders[in[2]].user # in[1] /\ Role(in[1]) # "admin") =>
              /\ req'[s].pc = "done"
              /\ req'[s].resp = Response(403, "Forbidden", 0)
              /\ orders' = orders /\ products' = products
       /\ (StepOf(s, "fakePayment") /\ (orders' # orders \/ products' # products)) =>
            \/ orders[req[s].id].user = req[s].user
            \/ Role(req[s].user) = "admin"]_vars

\* a user who does not own the order and is no admin was answered 403 on
\* an unpaid order
OnlyOwnerOrAdminPaysWitness ==
  \E s \in Slots :
    /\ req[s].op = "fakePayment" /\ req[s].pc = "done"
    /\ req[s].resp.status = 403
    /\ ~orders[req[s].id].payed

\* this step is slot s receiving a request to an account or catalogue route
EntersRoute(s) ==
  /\ req[s].pc = "idle" /\ req'[s].pc # "idle"
  /\ req'[s].op \in AdminRoutes \cup UserRoutes

\* the requests to the user administration routes and to deleteAccount
UserRouteInputs ==
  UNION {{<<token, route, target>> : token \in Tokens, target \in RouteTargets(route)} :
           route \in UserAdminRoutes}

\* the token verifies and names a stored user whose status is "active"
NamesActiveUser(token) ==
  /\ token \notin {NoToken, "forged", "anonymous"}
  /\ token \in DOMAIN users
  /\ users[token].status = "active"

\* C11: a request reaches its handler only from its arrival and only if
\* its token verifies and names a stored user whose status is "active" at
\* that moment; every other request, so every request with the token of a
\* user who is banned, deleted or removed, is answered 401 and changes
\* nothing.
InactiveUsersRejected ==
  [][\A s \in Slots :
       /\ (req'[s].pc = "handler" /\ req[s].pc # "handler") => EntersRoute(s)
       /\ EntersRoute(s) => \A in \in UserRouteInputs :
            RouteStart(s, in[1], in[2], in[3]) =>
              /\ req'[s].pc = "handler" => NamesActiveUser(in[1])
              /\ ~NamesActiveUser(in[1]) =>
                   /\ req'[s].pc = "done"
                   /\ req'[s].resp.status = 401
                   /\ users' = users /\ products' = products
                   /\ orders' = orders /\ messages' = messages]_vars

\* the token of u1, who is banned, was answered 401 (the admin and the
\* moderator are active)
InactiveUsersRejectedWitness ==
  /\ "u1" \in DOMAIN users /\ users["u1"].status = "banned"
  /\ users["adm"].status = "active" /\ users["mod"].status = "active"
  /\ \E s \in Slots :
       /\ req[s].pc = "done" /\ req[s].op \in UserAdminRoutes
       /\ req[s].resp = Response(401, "Invalid or inactive user.", 0)

\* this step is slot s receiving a request to a route of the admin router
EntersAdminRoute(s) ==
  /\ req[s].pc = "idle" /\ req'[s].pc # "idle"
  /\ req'[s].op \in AdminRoutes

\* the requests to the admin router but those to the order status route
AdminRouteInputs ==
  UNION {{<<token, route, target>> : token \in AdminTokens, target \in RouteTargets(route)} :
           route \in AdminRoutes \ {"updateOrderStatus"}}

\* the requests to PATCH /admin/orders/:id/status
AdminOrderInputs == AdminTokens \X {"shipped", "cancelled"}

\* the token names a stored, active user whose role is "admin"
NamesAdmin(token) == NamesActiveUser(token) /\ users[token].role = "admin"

\* no document of any collection changes in this step
StoresUnchanged ==
  /\ users' = users /\ products' = products
  /\ orders' = orders /\ messages' = messages

\* slot s is inside a handler of the admin router for an admin's request
AdminAtWork(s) ==
  /\ req[s].pc \notin {"idle", "done"}
  /\ req[s].op \in AdminRoutes
  /\ req[s].user \in DOMAIN users
  /\ users[req[s].user].role = "admin"

\* what the arrival of a request with this token at the admin router in
\* slot s must come to
AdminGuarded(s, token) ==
  /\ ~NamesActiveUser(token) =>
       /\ req'[s].pc = "done" /\ req'[s].resp.status = 401
       /\ StoresUnchanged
  /\ (NamesActiveUser(token) /\ ~NamesAdmin(token)) =>
       /\ req'[s].pc = "done" /\ req'[s].resp.status = 403
       /\ StoresUnchanged
  /\ (req'[s].pc # "done" \/ req'[s].resp.status \notin {401, 403}) =>
       NamesAdmin(token)

\* C12: every request to the admin router without an authenticated user is
\* answered 401 and every request of a user whose role is not "admin" is
\* answered 403, both without a change to any collection; a handler of the
\* admin router is entered only by an active admin's request, and every
\* change to a collection is a step of such a handler.
AdminRoutesProtected ==
  [][/\ \A s \in Slots :
          /\ EntersAdminRoute(s) =>
               /\ \A in \in AdminRouteInputs :
                    RouteStart(s, in[1], in[2], in[3]) => AdminGuarded(s, in[1])
               /\ \A in \in AdminOrderInputs :
                    AdminOrderStatus(s, in[1], 1, in[2]) => AdminGuarded(s, in[1])
          /\ (req[s].pc \notin {"idle", "done"} /\ req'[s] # req[s]) => AdminAtWork(s)
     /\ ~StoresUnchanged => \E t \in Slots : AdminAtWork(t) /\ req'[t] # req[t]]_vars

\* a customer's request to the admin router was answered 403 and a request
\* without a token 401, after an admin's message had been stored
AdminRoutesProtectedWitness ==
  /\ messages # <<>>
  /\ \E s, t \in Slots :
       /\ req[s].pc = "done" /\ req[s].op \in AdminRoutes
       /\ req[s].resp = Response(403, "Forbidden: insufficient role", 0)
       /\ req[t].pc = "done" /\ req[t].op \in AdminRoutes
       /\ req[t].resp = Response(401, "Access token missing.", 0)

\* the stored users whose role is "admin"
StoredAdmins == {u \in DOMAIN users : users[u].role = "admin"}

\* this step is the handler of such a route in slot s looking up its target
LooksUpTarget(s, routes) ==
  /\ req[s].pc = "handler" /\ req[s].op \in routes
  /\ req'[s].pc # "handler"

\* C13: the block and the delete handler answer 403 for a target whose role
\* is "admin" and change no user; no step of a block or delete request
\* changes an admin's document, and an admin is never banned nor removed.
AdminsNeverBlockedOrDeleted ==
  [][/\ \A s \in Slots :
          (LooksUpTarget(s, {"blockUser", "deleteUser"}) /\ req[s].target \in StoredAdmins) =>
             /\ req'[s].pc = "done"
             /\ req'[s].resp.status = 403
             /\ users' = users
     /\ \A a \in StoredAdmins :
          /\ a \in DOMAIN users'
          /\ users'[a].status # "banned"
          /\ users'[a] # users[a] =>
               \E s \in Slots : /\ req[s].op \in {"unblockUser", "deleteAccount"}
                                /\ req'[s].pc = "done" /\ req[s].pc # "done"]_vars

\* a request to block the admin and a request to delete the admin were both
\* answered 403, and the admin is stored and active
AdminsNeverBlockedOrDeletedWitness ==
  /\ "adm" \in DOMAIN users /\ users["adm"].status = "active"
  /\ \E s, t \in Slots :
       /\ req[s].pc = "done" /\ req[s].op = "blockUser"
       /\ req[s].resp = Response(403, "Cannot block admin users", 0)
       /\ req[t].pc = "done" /\ req[t].op = "deleteUser"
       /\ req[t].resp = Response(403, "Cannot delete admin users", 0)

\* this step is the save of the handler of that route in slot s
SavesUser(s, route) ==
  /\ req[s].op = route /\ req[s].pc = "save"
  /\ req'[s].pc = "done"
  /\ req[s].target \in DOMAIN users

\* C14: with requests served one after the other, a block leaves the user
\* banned with previousStatus the status held before the first block since
\* the last unblock, and the unblock of a blocked user sets the status back
\* to that status; every unblock leaves previousStatus unset.
BlockUnblockRoundTrip ==
  [][\A s \in Slots :
       /\ SavesUser(s, "blockUser") =>
            /\ users'[req[s].target].status = "banned"
            /\ users'[req[s].target].previousStatus = blockedFrom'[req[s].target]
            /\ blockedFrom[req[s].target] # Unset =>
                 blockedFrom'[req[s].target] = blockedFrom[req[s].target]
       /\ SavesUser(s, "unblockUser") =>
            /\ users'[req[s].target].previousStatus = Unset
            /\ blockedFrom[req[s].target] # Unset =>
                 users'[req[s].target].status = blockedFrom[req[s].target]]_vars

\* a user who had deleted their account was blocked and then unblocked: the
\* status is "deleted" again and previousStatus is unset
BlockUnblockRoundTripWitness ==
  /\ "u1" \in DOMAIN users
  /\ users["u1"].status = "deleted" /\ users["u1"].previousStatus = Unset
  /\ \E s, t \in Slots :
       /\ req[s].pc = "done" /\ req[s].op = "blockUser"
       /\ req[s].resp = Response(200, "", 0)
       /\ req[t].pc = "done" /\ req[t].op = "unblockUser"
       /\ req[t].resp = Response(200, "", 0)

\* C15: no magic-link token is used twice: the cookie pairs magicLogin has
\* sent out belong to different tokens, and no user has more sessions than
\* tokens were used for them.
MagicLinkSingleUse ==
  /\ \A i, j \in DOMAIN issued : issued[i].link = issued[j].link => i = j
  /\ \A u \in DOMAIN users :
       users[u].sessions <= Cardinality({issued[i].link : i \in {k \in DOMAIN issued : issued[k].user = u}})

====
